---- MODULE Spec2Model ----
(***************************************************************************)
(* Model of the API handlers of typescript_easy_stuff_api:                 *)
(*   users/route.ts      GET/POST/PUT/DELETE /users (id in the query)      *)
(*   unnamed/part_002    GET/PUT/DELETE /users/{id}                        *)
(*   unnamed/part_000    session callbacks, GET/POST/PUT/DELETE /requests  *)
(* Strings are sequences of one-character strings.  A JSON body is a       *)
(* record whose DOMAIN is the set of keys that are present.                *)
(***************************************************************************)
EXTENDS Integers, Sequences, FiniteSets, TLC

VARIABLES users, profiles, requests, logs, roles,
          nextUserId, nextRequestId, nextLogId,
          resp, trace, submitted, token, redirected,
          calls

vars == <<users, profiles, requests, logs, roles, nextUserId, nextRequestId,
          nextLogId, resp, trace, submitted, token, redirected, calls>>

----------------------------------------------------------------------------
(* Bounds of the model *)
MaxUsers == 2
MaxRequests == 2
MaxAudited == 1
MaxLogs == 2

(* Program constants *)
MinUsernameLen == 3
MaxUsernameLen == 30
MinPasswordLen == 8
MinDescriptionLen == 10

----------------------------------------------------------------------------
(* Characters and sample strings *)
Digits == <<"0", "1", "2", "3", "4", "5", "6", "7", "8", "9">>
DigitSet == {Digits[i] : i \in 1..10}
Letters == {"a", "b", "c", "d", "e", "g", "i", "l", "n", "o", "p", "r", "s", "t", "w", "x"}
Alnum == Letters \cup DigitSet

Alice == <<"a", "l", "i", "c", "e", "0", "1">>
Bob == <<"b", "o", "b">>
BadName == <<"b", "o", "b", "!">>
ShortName == <<"a", "l">>
LongName == [i \in 1..(MaxUsernameLen + 1) |-> "a"]
EmailA == <<"a", "@", "b", ".", "c">>
EmailC == <<"c", "@", "d", ".", "c">>
BadEmail == <<"a", "@", "b">>
Pw1 == <<"l", "o", "n", "g", "p", "w", "1", "2", "3">>
Pw2 == <<"p", "a", "s", "s", "w", "o", "r", "d">>
ShortPw == <<"p", "a", "s", "s", "w", "o", "r">>
Phone == <<"5", "5", "5", "-", "1", "2", "3", "4">>
Phone2 == <<"5", "5", "5", "-", "9">>
First == <<"a", "l">>
Empty == <<>>
LongDesc == <<"d", "e", "s", "c", "r", "i", "p", "t", "i", "o">>
ShortDesc == <<"d", "e", "s", "c", "r", "i", "p", "t", "i">>

Has(body, f) == f \in DOMAIN body
(* JavaScript truthiness of body.f for string fields: present and non-empty *)
Truthy(body, f) == Has(body, f) /\ body[f] # Empty

----------------------------------------------------------------------------
(* parseInt: the value of the leading decimal digits, NaN when there are none *)
NaN == -1
DigitVal(c) == CHOOSE i \in 0..9 : Digits[i + 1] = c

RECURSIVE LeadingDigits(_)
LeadingDigits(s) ==
  IF s = Empty \/ Head(s) \notin DigitSet THEN Empty
  ELSE <<Head(s)>> \o LeadingDigits(Tail(s))

RECURSIVE DecimalValue(_)
DecimalValue(s) ==
  IF s = Empty THEN 0
  ELSE 10 * DecimalValue(SubSeq(s, 1, Len(s) - 1)) + DigitVal(s[Len(s)])

ParseInt(s) == IF LeadingDigits(s) = Empty THEN NaN ELSE DecimalValue(LeadingDigits(s))

----------------------------------------------------------------------------
(* Joi schemas *)
IsAlphanum(s) == \A i \in 1..Len(s) : s[i] \in Alnum

UsernameOk(s) == /\ s # Empty
                 /\ IsAlphanum(s)
                 /\ Len(s) >= MinUsernameLen
                 /\ Len(s) <= MaxUsernameLen

(* email({tlds: {allow: false}}): one "@", a local part, a domain of at least
   two non-empty segments *)
EmailOk(s) ==
  \E i \in 2..Len(s) :
     /\ s[i] = "@"
     /\ \A j \in 1..Len(s) : s[j] = "@" => j = i
     /\ \E k \in (i + 2)..(Len(s) - 1) : s[k] = "."
     /\ s[i + 1] # "." /\ s[Len(s)] # "."

PasswordOk(s) == s # Empty /\ Len(s) >= MinPasswordLen

StringOk(s) == s # Empty

RoleNames == {"user", "admin"}

ProfileFields == {"firstName", "lastName", "phone", "address"}

(* userSchema of users/route.ts: unknown keys are rejected *)
UserSchemaOk(body) ==
  /\ DOMAIN body \subseteq {"username", "email", "password", "role"} \cup ProfileFields
  /\ Has(body, "username") /\ UsernameOk(body.username)
  /\ Has(body, "email") /\ EmailOk(body.email)
  /\ Has(body, "password") /\ PasswordOk(body.password)
  /\ Has(body, "role") /\ body.role \in RoleNames
  /\ \A f \in ProfileFields : Has(body, f) => StringOk(body[f])

(* updateUserSchema of users/route.ts, validated with allowUnknown *)
UpdateUserSchemaOk(body) ==
  /\ Has(body, "username") => UsernameOk(body.username)
  /\ Has(body, "email") => EmailOk(body.email)
  /\ Has(body, "password") => PasswordOk(body.password)
  /\ \A f \in ProfileFields : Has(body, f) => StringOk(body[f])

(* updateUserSchema of the /users/{id} module, validated with allowUnknown *)
ItemUpdateUserSchemaOk(body) ==
  /\ Has(body, "username") /\ UsernameOk(body.username)
  /\ Has(body, "email") /\ EmailOk(body.email)
  /\ Has(body, "password") /\ PasswordOk(body.password)

----------------------------------------------------------------------------
(* bcrypt: a salted hash "$2b$10$<salt><digest>"; compare re-hashes the
   candidate with the salt kept in the stored value *)
Salts == {"A", "B"}
BcryptPrefix == <<"$", "2", "b", "$", "1", "0", "$">>
BcryptHash(p, salt) == BcryptPrefix \o <<salt>> \o p
SaltOf(h) == h[Len(BcryptPrefix) + 1]
BcryptCompare(p, h) ==
  /\ Len(h) > Len(BcryptPrefix)
  /\ SubSeq(h, 1, Len(BcryptPrefix)) = BcryptPrefix
  /\ h = BcryptHash(p, SaltOf(h))

----------------------------------------------------------------------------
(* The persistence store.  Rows are records; ids are autoincrement counters.
   users:    [id, username, email, password, role]
   profiles: [userId, firstName, lastName, phone, address]
   requests: [id, userId, description, status]
   logs:     [id, userId, action, description] *)

UserById(id) == {u \in users : u.id = id}
ProfileOf(uid) == {p \in profiles : p.userId = uid}
RequestsOf(uid) == {r \in requests : r.userId = uid}
RequestById(id) == {r \in requests : r.id = id}

(* unique constraints on User.username and User.email; `self` is the id of the
   row being written (0 for a row being created) *)
UniqueViolation(self, data) ==
  \E u \in users :
     /\ u.id # self
     /\ \/ Has(data, "username") /\ u.username = data.username
        \/ Has(data, "email") /\ u.email = data.email

(* foreign keys UserProfile.userId, Request.userId, ActivityLog.userId -> User.id
   are enforced without cascade: a user row that is still referenced cannot be
   deleted, and a row cannot reference an absent user *)
Referenced(uid, profs, reqs, lgs) ==
  \/ \E p \in profs : p.userId = uid
  \/ \E r \in reqs : r.userId = uid
  \/ \E l \in lgs : l.userId = uid

UserExists(uid) == UserById(uid) # {}

(* prisma.role.findUnique({where: {name}}) *)
RoleByName(name) == {r \in roles : r.name = name}

(* value of a profile column that a create leaves out *)
ProfileDefault == Empty

(* one store call of a handler, as recorded in its trace *)
Call(name, ok, count) == [call |-> name, ok |-> ok, count |-> count]

(* a response, with the parameter (id or credentials) the call was made with *)
Response(op, arg, status, body) == [op |-> op, arg |-> arg, status |-> status, body |-> body]
ErrorBody(msg) == [error |-> msg]
NoBody == [empty |-> TRUE]

----------------------------------------------------------------------------
(* GET /users, GET /users?id= : users/route.ts *)

(* findUnique/findMany with include: {role: true, profile: true} *)
UserWithRoleAndProfile(u) ==
  [id |-> u.id, username |-> u.username, email |-> u.email, password |-> u.password,
   role |-> u.role, profile |-> ProfileOf(u.id)]

(* findUnique with include: {role: true} *)
UserWithRole(u) ==
  [id |-> u.id, username |-> u.username, email |-> u.email, password |-> u.password,
   role |-> u.role]

UsersGETResponse(idp) ==
  IF idp # Empty
  THEN IF ParseInt(idp) = NaN
       THEN Response("GET /users", idp, 500, ErrorBody("Error fetching user(s)"))
       ELSE IF UserById(ParseInt(idp)) = {}
            THEN Response("GET /users", idp, 404, ErrorBody("User not found"))
            ELSE Response("GET /users", idp, 200,
                          UserWithRoleAndProfile(CHOOSE u \in UserById(ParseInt(idp)) : TRUE))
  ELSE Response("GET /users", idp, 200, [list |-> {UserWithRoleAndProfile(u) : u \in users}])

(* GET /users/{id} *)
UserItemGETResponse(idp) ==
  IF ParseInt(idp) = NaN
  THEN Response("GET /users/{id}", idp, 500, ErrorBody("Error fetching user"))
  ELSE IF UserById(ParseInt(idp)) = {}
       THEN Response("GET /users/{id}", idp, 404, ErrorBody("User not found"))
       ELSE Response("GET /users/{id}", idp, 200,
                     UserWithRole(CHOOSE u \in UserById(ParseInt(idp)) : TRUE))

----------------------------------------------------------------------------
(* POST /users : users/route.ts *)

(* data of prisma.user.create: the password column receives the hash *)
NewUserRow(id, body, salt) ==
  [id |-> id, username |-> body.username, email |-> body.email,
   password |-> BcryptHash(body.password, salt), role |-> body.role]

(* profile: {create: {firstName: firstName || '', ...}} *)
NewProfileRow(uid, body) ==
  [userId |-> uid,
   firstName |-> IF Truthy(body, "firstName") THEN body.firstName ELSE Empty,
   lastName |-> IF Truthy(body, "lastName") THEN body.lastName ELSE Empty,
   phone |-> IF Truthy(body, "phone") THEN body.phone ELSE Empty,
   address |-> IF Truthy(body, "address") THEN body.address ELSE Empty]

(* a catch block without the unique-constraint branch *)
CreateUserErrorAlways500(message) ==
  Response("POST /users", Empty, 500, ErrorBody("Error creating user"))

(* the catch block: a unique-constraint failure is a 400, anything else a 500 *)
CreateUserErrorResponse(message) ==
  IF message = "Unique constraint failed"
  THEN Response("POST /users", Empty, 400, ErrorBody("Username or email already exists"))
  ELSE Response("POST /users", Empty, 500, ErrorBody("Error creating user"))

UsersPOST(body, salt) ==
  /\ IF ~UserSchemaOk(body)
     THEN /\ resp' = Response("POST /users", Empty, 400, ErrorBody("validation"))
          /\ trace' = <<>>
          /\ UNCHANGED <<users, profiles, nextUserId, submitted>>
     ELSE IF RoleByName(body.role) = {}
     THEN /\ resp' = Response("POST /users", Empty, 400, ErrorBody("Role not found"))
          /\ trace' = <<Call("role.findUnique", TRUE, 0)>>
          /\ UNCHANGED <<users, profiles, nextUserId, submitted>>
     ELSE IF UniqueViolation(0, body)
     THEN /\ resp' = CreateUserErrorResponse("Unique constraint failed")
          /\ trace' = <<Call("role.findUnique", TRUE, 1), Call("user.create", FALSE, 0)>>
          /\ UNCHANGED <<users, profiles, nextUserId, submitted>>
     ELSE /\ users' = users \cup {NewUserRow(nextUserId, body, salt)}
          /\ profiles' = profiles \cup {NewProfileRow(nextUserId, body)}
          /\ nextUserId' = nextUserId + 1
          /\ submitted' = (nextUserId :> body.password) @@ submitted
          /\ resp' = Response("POST /users", Empty, 201, NewUserRow(nextUserId, body, salt))
          /\ trace' = <<Call("role.findUnique", TRUE, 1), Call("user.create", TRUE, 1)>>
  /\ UNCHANGED <<requests, logs, roles, calls, nextRequestId, nextLogId, token, redirected>>

UsersGET(idp) ==
  /\ resp' = UsersGETResponse(idp)
  /\ trace' = <<Call(IF idp # Empty THEN "user.findUnique" ELSE "user.findMany",
                     idp = Empty \/ ParseInt(idp) # NaN, 0)>>
  /\ UNCHANGED <<users, profiles, requests, logs, roles, calls, nextUserId, nextRequestId,
                 nextLogId, submitted, token, redirected>>

UserItemGET(idp) ==
  /\ resp' = UserItemGETResponse(idp)
  /\ trace' = <<Call("user.findUnique", ParseInt(idp) # NaN, 0)>>
  /\ UNCHANGED <<users, profiles, requests, logs, roles, calls, nextUserId, nextRequestId,
                 nextLogId, submitted, token, redirected>>

----------------------------------------------------------------------------
(* PUT /users?id= : users/route.ts *)

(* updateData with the password written as submitted *)
PutUpdateDataPlain(body, salt) ==
  [f \in {g \in {"username", "email", "password"} : Truthy(body, g)} |-> body[f]]

(* updateData: only the truthy fields are written, the password hashed *)
PutUpdateData(body, salt) ==
  [f \in {g \in {"username", "email", "password"} : Truthy(body, g)} |->
     IF f = "password" THEN BcryptHash(body.password, salt) ELSE body[f]]

(* a row with the columns of `data` overwritten *)
Merge(row, data) ==
  [f \in DOMAIN row |-> IF f \in DOMAIN data THEN data[f] ELSE row[f]]

(* userProfile.upsert: update sets the columns the body has (undefined ones are
   left alone), create inserts a row keyed by userId *)
UpsertProfile(uid, body) ==
  IF ProfileOf(uid) # {}
  THEN {IF p.userId = uid
        THEN Merge(p, [f \in {g \in ProfileFields : Has(body, g)} |-> body[f]])
        ELSE p : p \in profiles}
  ELSE profiles \cup
       {[userId |-> uid,
         firstName |-> IF Has(body, "firstName") THEN body.firstName ELSE ProfileDefault,
         lastName |-> IF Has(body, "lastName") THEN body.lastName ELSE ProfileDefault,
         phone |-> IF Has(body, "phone") THEN body.phone ELSE ProfileDefault,
         address |-> IF Has(body, "address") THEN body.address ELSE ProfileDefault]}

(* if (firstName || lastName || phone || address) *)
HasProfileFields(body) == \E f \in ProfileFields : Truthy(body, f)

(* prisma.user.update: the row must exist and stay unique *)
UserUpdateOk(uid, data) == UserExists(uid) /\ ~UniqueViolation(uid, data)

UpdatedUsers(uid, data) == {IF u.id = uid THEN Merge(u, data) ELSE u : u \in users}

UsersPUT(idp, body, salt) ==
  /\ LET uid == ParseInt(idp)
         data == PutUpdateData(body, salt)
     IN IF idp = Empty
        THEN /\ resp' = Response("PUT /users", idp, 400, ErrorBody("User ID not provided"))
             /\ trace' = <<>>
             /\ UNCHANGED <<users, profiles, submitted>>
        ELSE IF uid = NaN
        THEN /\ resp' = Response("PUT /users", idp, 400, ErrorBody("Invalid user id"))
             /\ trace' = <<>>
             /\ UNCHANGED <<users, profiles, submitted>>
        ELSE IF ~UpdateUserSchemaOk(body)
        THEN /\ resp' = Response("PUT /users", idp, 400, ErrorBody("validation"))
             /\ trace' = <<>>
             /\ UNCHANGED <<users, profiles, submitted>>
        ELSE IF ~UserUpdateOk(uid, data)
        THEN /\ resp' = Response("PUT /users", idp, 500, ErrorBody("Error updating user"))
             /\ trace' = <<Call("user.update", FALSE, 0)>>
             /\ UNCHANGED <<users, profiles, submitted>>
        ELSE /\ users' = UpdatedUsers(uid, data)
             /\ submitted' = IF Has(data, "password")
                             THEN [submitted EXCEPT ![uid] = body.password]
                             ELSE submitted
             /\ IF HasProfileFields(body)
                THEN /\ profiles' = UpsertProfile(uid, body)
                     /\ trace' = <<Call("user.update", TRUE, 1),
                                   Call("userProfile.upsert", TRUE, 1)>>
                ELSE /\ UNCHANGED profiles
                     /\ trace' = <<Call("user.update", TRUE, 1)>>
             /\ resp' = Response("PUT /users", idp, 200,
                                 Merge(CHOOSE u \in UserById(uid) : TRUE, data))
  /\ UNCHANGED <<requests, logs, roles, calls, nextUserId, nextRequestId, nextLogId,
                 token, redirected>>

----------------------------------------------------------------------------
(* PUT /users/{id} *)

(* data: {username, password: hashedPassword, email} *)
ItemPutData(body, salt) ==
  [username |-> body.username, password |-> BcryptHash(body.password, salt),
   email |-> body.email]

UserItemPUT(idp, body, salt) ==
  /\ LET uid == ParseInt(idp)
     IN IF ~ItemUpdateUserSchemaOk(body)
        THEN /\ resp' = Response("PUT /users/{id}", idp, 400, ErrorBody("validation"))
             /\ trace' = <<>>
             /\ UNCHANGED <<users, submitted>>
        ELSE IF uid = NaN \/ ~UserUpdateOk(uid, ItemPutData(body, salt))
        THEN /\ resp' = Response("PUT /users/{id}", idp, 500, ErrorBody("Error updating user"))
             /\ trace' = <<Call("user.update", FALSE, 0)>>
             /\ UNCHANGED <<users, submitted>>
        ELSE /\ users' = UpdatedUsers(uid, ItemPutData(body, salt))
             /\ submitted' = [submitted EXCEPT ![uid] = body.password]
             /\ trace' = <<Call("user.update", TRUE, 1)>>
             /\ resp' = Response("PUT /users/{id}", idp, 200,
                                 Merge(CHOOSE u \in UserById(uid) : TRUE,
                                       ItemPutData(body, salt)))
  /\ UNCHANGED <<profiles, requests, logs, roles, calls, nextUserId, nextRequestId, nextLogId,
                 token, redirected>>

----------------------------------------------------------------------------
(* DELETE /users?id= : users/route.ts *)

(* the plaintexts last accepted, without the entry of a deleted user *)
Forget(sub, uid) == [i \in DOMAIN sub \ {uid} |-> sub[i]]

(* prisma.user.delete: the row must exist and nothing may reference it *)
UserDeleteOk(uid, profs, reqs, lgs) == UserExists(uid) /\ ~Referenced(uid, profs, reqs, lgs)

UsersDELETE(idp) ==
  /\ LET uid == ParseInt(idp)
         profs == profiles \ ProfileOf(uid)
         reqs == requests \ RequestsOf(uid)
         dependents ==
           <<Call("userProfile.findUnique", TRUE, Cardinality(ProfileOf(uid)))>>
           \o (IF ProfileOf(uid) # {} THEN <<Call("userProfile.delete", TRUE, 1)>> ELSE <<>>)
           \o <<Call("request.deleteMany", TRUE, Cardinality(RequestsOf(uid)))>>
     IN IF idp = Empty
        THEN /\ resp' = Response("DELETE /users", idp, 400, ErrorBody("User ID not provided"))
             /\ trace' = <<>>
             /\ UNCHANGED <<users, profiles, requests, submitted>>
        ELSE IF uid = NaN
        THEN /\ resp' = Response("DELETE /users", idp, 400, ErrorBody("Invalid user id"))
             /\ trace' = <<>>
             /\ UNCHANGED <<users, profiles, requests, submitted>>
        ELSE /\ profiles' = profs
             /\ requests' = reqs
             /\ IF UserDeleteOk(uid, profs, reqs, logs)
                THEN /\ users' = users \ UserById(uid)
                     /\ submitted' = Forget(submitted, uid)
                     /\ trace' = dependents \o <<Call("user.delete", TRUE, 1)>>
                     /\ resp' = Response("DELETE /users", idp, 204, NoBody)
                ELSE /\ UNCHANGED <<users, submitted>>
                     /\ trace' = dependents \o <<Call("user.delete", FALSE, 0)>>
                     /\ resp' = Response("DELETE /users", idp, 500,
                                         ErrorBody("Error deleting user"))
  /\ UNCHANGED <<logs, roles, calls, nextUserId, nextRequestId, nextLogId, token, redirected>>

(* DELETE /users/{id} *)
UserItemDELETE(idp) ==
  /\ LET uid == ParseInt(idp)
     IN IF uid # NaN /\ UserDeleteOk(uid, profiles, requests, logs)
        THEN /\ users' = users \ UserById(uid)
             /\ submitted' = Forget(submitted, uid)
             /\ trace' = <<Call("user.delete", TRUE, 1)>>
             /\ resp' = Response("DELETE /users/{id}", idp, 204, NoBody)
        ELSE /\ UNCHANGED <<users, submitted>>
             /\ trace' = <<Call("user.delete", FALSE, 0)>>
             /\ resp' = Response("DELETE /users/{id}", idp, 500,
                                 ErrorBody("Error deleting user"))
  /\ UNCHANGED <<profiles, requests, logs, roles, calls, nextUserId, nextRequestId, nextLogId,
                 token, redirected>>

----------------------------------------------------------------------------
(* /requests *)

RequestStatuses == {"pending", "in-progress", "completed"}
RequestColumns == {"userId", "description", "status"}

(* requestSchema; POST validates without allowUnknown, PUT with it *)
RequestSchemaOk(body, allowUnknown) ==
  /\ allowUnknown \/ DOMAIN body \subseteq RequestColumns
  /\ Has(body, "userId")
  /\ Has(body, "description") /\ body.description # Empty
  /\ Len(body.description) >= MinDescriptionLen
  /\ Has(body, "status") => body.status \in RequestStatuses

(* the validated value: status defaults to pending *)
RequestValue(body) ==
  [f \in DOMAIN body \cup {"status"} |->
     IF f = "status" /\ ~Has(body, "status") THEN "pending" ELSE body[f]]

(* logActivity with the owner and the request id exchanged *)
LogRowSwapped(id, userId, action, text, requestId) ==
  [id |-> id, userId |-> requestId, action |-> action,
   description |-> [text |-> text, requestId |-> userId]]

(* logActivity(userId, action, description): the description names the request *)
LogRow(id, userId, action, text, requestId) ==
  [id |-> id, userId |-> userId, action |-> action,
   description |-> [text |-> text, requestId |-> requestId]]

(* a store call of the request handlers may fail at the persistence engine *)
Faults == {"none", "request", "log"}

(* a catch block that undoes the request write when the log write fails *)
RollBackOnLogFailure(before, written) == before

(* the Request table once the log write has failed: the catch block answers
   500 and undoes nothing *)
AfterLogFailure(before, written) == written

(* the data of a request write names only columns, and an existing owner *)
RequestDataOk(value) == DOMAIN value \subseteq RequestColumns /\ UserExists(value.userId)

NewRequestRow(id, value) ==
  [id |-> id, userId |-> value.userId, description |-> value.description,
   status |-> value.status]

RequestsPOST(body, fault) ==
  /\ LET value == RequestValue(body)
         row == NewRequestRow(nextRequestId, value)
     IN IF ~RequestSchemaOk(body, FALSE)
        THEN /\ resp' = Response("POST /requests", Empty, 400, ErrorBody("validation"))
             /\ trace' = <<>>
             /\ UNCHANGED <<requests, logs, nextRequestId, nextLogId>>
        ELSE IF fault = "request" \/ ~RequestDataOk(value)
        THEN /\ resp' = Response("POST /requests", Empty, 500,
                                 ErrorBody("Error creating request"))
             /\ trace' = <<Call("request.create", FALSE, 0)>>
             /\ UNCHANGED <<requests, logs, nextRequestId, nextLogId>>
        ELSE /\ requests' = IF fault = "log"
                            THEN AfterLogFailure(requests, requests \cup {row})
                            ELSE requests \cup {row}
             /\ nextRequestId' = nextRequestId + 1
             /\ IF fault = "log"
                THEN /\ resp' = Response("POST /requests", Empty, 500,
                                         ErrorBody("Error creating request"))
                     /\ trace' = <<Call("request.create", TRUE, 1),
                                   Call("activityLog.create", FALSE, 0)>>
                     /\ UNCHANGED <<logs, nextLogId>>
                ELSE /\ logs' = logs \cup
                          {LogRow(nextLogId, row.userId, "CREATE",
                                  "Created a new request with ID", row.id)}
                     /\ nextLogId' = nextLogId + 1
                     /\ resp' = Response("POST /requests", Empty, 201, row)
                     /\ trace' = <<Call("request.create", TRUE, 1),
                                   Call("activityLog.create", TRUE, 1)>>
  /\ UNCHANGED <<users, profiles, roles, calls, nextUserId, submitted, token, redirected>>

RequestsPUT(idp, body, fault) ==
  /\ LET rid == ParseInt(idp)
         value == RequestValue(body)
         row == NewRequestRow(rid, value)
     IN IF ~RequestSchemaOk(body, TRUE)
        THEN /\ resp' = Response("PUT /requests", idp, 400, ErrorBody("validation"))
             /\ trace' = <<>>
             /\ UNCHANGED <<requests, logs, nextLogId>>
        ELSE IF fault = "request" \/ RequestById(rid) = {} \/ ~RequestDataOk(value)
        THEN /\ resp' = Response("PUT /requests", idp, 500,
                                 ErrorBody("Error updating request"))
             /\ trace' = <<Call("request.update", FALSE, 0)>>
             /\ UNCHANGED <<requests, logs, nextLogId>>
        ELSE /\ requests' = IF fault = "log"
                            THEN AfterLogFailure(requests,
                                                 (requests \ RequestById(rid)) \cup {row})
                            ELSE (requests \ RequestById(rid)) \cup {row}
             /\ IF fault = "log"
                THEN /\ resp' = Response("PUT /requests", idp, 500,
                                         ErrorBody("Error updating request"))
                     /\ trace' = <<Call("request.update", TRUE, 1),
                                   Call("activityLog.create", FALSE, 0)>>
                     /\ UNCHANGED <<logs, nextLogId>>
                ELSE /\ logs' = logs \cup
                          {LogRow(nextLogId, row.userId, "UPDATE",
                                  "Updated request with ID", row.id)}
                     /\ nextLogId' = nextLogId + 1
                     /\ resp' = Response("PUT /requests", idp, 200, row)
                     /\ trace' = <<Call("request.update", TRUE, 1),
                                   Call("activityLog.create", TRUE, 1)>>
  /\ UNCHANGED <<users, profiles, roles, calls, nextUserId, nextRequestId, submitted,
                 token, redirected>>

RequestsDELETE(idp, fault) ==
  /\ LET rid == ParseInt(idp)
     IN IF fault = "request" \/ RequestById(rid) = {}
        THEN /\ resp' = Response("DELETE /requests", idp, 500,
                                 ErrorBody("Error deleting request"))
             /\ trace' = <<Call("request.delete", FALSE, 0)>>
             /\ UNCHANGED <<requests, logs, nextLogId>>
        ELSE LET row == CHOOSE r \in RequestById(rid) : TRUE
             IN /\ requests' = IF fault = "log"
                               THEN AfterLogFailure(requests, requests \ {row})
                               ELSE requests \ {row}
                /\ IF fault = "log"
                   THEN /\ resp' = Response("DELETE /requests", idp, 500,
                                            ErrorBody("Error deleting request"))
                        /\ trace' = <<Call("request.delete", TRUE, 1),
                                      Call("activityLog.create", FALSE, 0)>>
                        /\ UNCHANGED <<logs, nextLogId>>
                   ELSE /\ logs' = logs \cup
                             {LogRow(nextLogId, row.userId, "DELETE",
                                     "Deleted request with ID", row.id)}
                        /\ nextLogId' = nextLogId + 1
                        /\ resp' = Response("DELETE /requests", idp, 200, NoBody)
                        /\ trace' = <<Call("request.delete", TRUE, 1),
                                      Call("activityLog.create", TRUE, 1)>>
  /\ UNCHANGED <<users, profiles, roles, calls, nextUserId, nextRequestId, submitted,
                 token, redirected>>

----------------------------------------------------------------------------
(* Session handler: authorize and the jwt, session and redirect callbacks *)

Null == [null |-> TRUE]
IdentityFields == {"id", "username", "email", "role"}

(* authorize without the password comparison *)
AuthorizeAnyPassword(credentials) ==
  LET found == {u \in users : u.username = credentials.username}
  IN IF found # {}
     THEN LET user == CHOOSE u \in found : TRUE
              role == CHOOSE r \in RoleByName(user.role) : TRUE
          IN [id |-> user.id, username |-> user.username, email |-> user.email,
              role |-> [name |-> role.name, permissions |-> role.permissions]]
     ELSE Null

(* authorize: the identity of the user, or null *)
Authorize(credentials) ==
  LET found == {u \in users : u.username = credentials.username}
  IN IF found # {} /\ BcryptCompare(credentials.password, (CHOOSE u \in found : TRUE).password)
     THEN LET user == CHOOSE u \in found : TRUE
              role == CHOOSE r \in RoleByName(user.role) : TRUE
          IN [id |-> user.id, username |-> user.username, email |-> user.email,
              role |-> [name |-> role.name, permissions |-> role.permissions]]
     ELSE Null

(* jwt({token, user}): the identity is copied into the token when there is one *)
Jwt(tok, user) ==
  IF user # Null
  THEN [f \in DOMAIN tok \cup IdentityFields |->
          IF f \in IdentityFields THEN user[f] ELSE tok[f]]
  ELSE tok

(* session({session, token}): session.user takes the token's identity *)
SessionUser(tok) == [f \in IdentityFields |-> tok[f]]

(* redirect({url, baseUrl}) *)
StartsWith(s, prefix) == Len(s) >= Len(prefix) /\ SubSeq(s, 1, Len(prefix)) = prefix
Redirect(url, baseUrl) == IF StartsWith(url, baseUrl) THEN baseUrl ELSE url

(* a credentials sign-in: the jwt callback runs with the user authorize returned;
   on null the sign-in ends at the error page and no token is issued *)
SignIn(credentials) ==
  /\ resp' = Response("authorize", credentials, 0, Authorize(credentials))
  /\ trace' = <<Call("user.findUnique", TRUE, 0)>>
  /\ token' = IF Authorize(credentials) # Null THEN Jwt(token, Authorize(credentials))
              ELSE token
  /\ UNCHANGED <<users, profiles, requests, logs, roles, calls, nextUserId, nextRequestId,
                 nextLogId, submitted, redirected>>

(* a session lookup with an issued token: jwt without user, then session *)
GetSession ==
  /\ IdentityFields \subseteq DOMAIN token
  /\ token' = Jwt(token, Null)
  /\ resp' = Response("session", Empty, 0, SessionUser(Jwt(token, Null)))
  /\ trace' = <<>>
  /\ UNCHANGED <<users, profiles, requests, logs, roles, calls, nextUserId, nextRequestId,
                 nextLogId, submitted, redirected>>

UrlChars == {"a", "e", ".", "/", "p"}
MaxUrlLen == 3
Urls == UNION {[1..n -> UrlChars] : n \in 1..MaxUrlLen}
BaseUrl == <<"a">>

RedirectCallback(url) ==
  /\ redirected' = [url |-> url, target |-> Redirect(url, BaseUrl)]
  /\ UNCHANGED <<users, profiles, requests, logs, roles, calls, nextUserId, nextRequestId,
                 nextLogId, resp, trace, submitted, token>>

----------------------------------------------------------------------------
(* Inputs *)
IdParams == {<<Digits[i + 1]>> : i \in 1..MaxUsers} \cup {<<"x">>}
QueryIdParams == IdParams \cup {Empty}

AliceBody == [username |-> Alice, email |-> EmailA, password |-> Pw1, role |-> "user"]
BobBody == [username |-> Bob, email |-> EmailC, password |-> Pw2, role |-> "user",
            firstName |-> First, phone |-> Phone]

UserPostBodies ==
  {AliceBody, BobBody,
   [username |-> Alice, email |-> EmailC, password |-> Pw2, role |-> "user"],
   [username |-> Bob, email |-> EmailA, password |-> Pw1, role |-> "admin"],
   [username |-> BadName, email |-> EmailA, password |-> Pw1, role |-> "user"],
   [username |-> ShortName, email |-> EmailA, password |-> Pw1, role |-> "user"],
   [username |-> LongName, email |-> EmailA, password |-> Pw1, role |-> "user"],
   [username |-> Alice, email |-> BadEmail, password |-> Pw1, role |-> "user"],
   [username |-> Alice, email |-> EmailA, password |-> ShortPw, role |-> "user"],
   [username |-> Alice, email |-> EmailA, password |-> Pw1, role |-> "guest"],
   [username |-> Alice, email |-> EmailA, role |-> "user"],
   [username |-> Alice, email |-> EmailA, password |-> Pw1, role |-> "user",
    note |-> First]}

UserPutBodies ==
  {[phone |-> Phone2],
   [password |-> Pw2],
   [password |-> ShortPw],
   [username |-> Bob, email |-> EmailC, password |-> Pw1, role |-> "admin"]}

RequestBodies ==
  {[userId |-> u, description |-> LongDesc] : u \in 1..MaxUsers}
  \cup {[userId |-> 1, description |-> LongDesc, status |-> st] :
          st \in {"completed", "rejected"}}

RequestPostBodies ==
  RequestBodies \cup {[userId |-> 1, description |-> ShortDesc],
                      [description |-> LongDesc],
                      [userId |-> 1, description |-> LongDesc, note |-> First]}

RequestPutBodies ==
  RequestBodies \cup {[userId |-> 1, description |-> LongDesc, note |-> First]}

RequestIdParams == {<<Digits[i + 1]>> : i \in 1..MaxRequests} \cup {Empty}

Credentials ==
  {[username |-> n, password |-> p] : n \in {Alice, Bob}, p \in {Pw1, Pw2}}

(* the seeded Role table *)
RoleTable == {[name |-> "user", permissions |-> {"read"}]}

(* the two calls in flight on one user id, each at its next store call;
   status is the response once the call has answered *)
NoCalls == [uid |-> 0, before |-> [profile |-> {}, requests |-> {}],
            del |-> [pc |-> "idle", status |-> 0],
            put |-> [pc |-> "idle", status |-> 0, body |-> NoBody]]

----------------------------------------------------------------------------
Init ==
  /\ users = {}
  /\ profiles = {}
  /\ requests = {}
  /\ logs = {}
  /\ roles = RoleTable
  /\ nextUserId = 1
  /\ nextRequestId = 1
  /\ nextLogId = 1
  /\ resp = Response("none", Empty, 0, NoBody)
  /\ trace = <<>>
  /\ submitted = <<>>
  /\ token = [sub |-> "anonymous"]
  /\ redirected = [url |-> BaseUrl, target |-> BaseUrl]
  /\ calls = NoCalls

(* The handlers have no limits of their own: each specification caps the
   autoincrement counters so that its state space is finite. *)
(* the salts to try for a body: one is enough when nothing will be hashed *)
SaltsFor(body) ==
  IF Has(body, "password") /\ PasswordOk(body.password) THEN Salts ELSE {"A"}

UserHandlers ==
  \/ /\ nextUserId <= MaxUsers
     /\ \E body \in UserPostBodies : \E salt \in SaltsFor(body) : UsersPOST(body, salt)
  \/ \E idp \in QueryIdParams : UsersGET(idp)
  \/ \E idp \in IdParams : UserItemGET(idp)
  \/ \E idp \in QueryIdParams, body \in UserPutBodies :
        \E salt \in SaltsFor(body) : UsersPUT(idp, body, salt)
  \/ \E idp \in IdParams, body \in UserPutBodies :
        \E salt \in SaltsFor(body) : UserItemPUT(idp, body, salt)
  \/ \E idp \in QueryIdParams : UsersDELETE(idp)
  \/ \E idp \in IdParams : UserItemDELETE(idp)

SeedUser ==
  /\ nextUserId <= MaxUsers
  /\ \E body \in {AliceBody, BobBody} : UsersPOST(body, "A")

CreateRequest(cap) ==
  /\ nextRequestId <= cap
  /\ nextLogId <= MaxLogs
  /\ \E body \in RequestPostBodies, fault \in Faults : RequestsPOST(body, fault)

UpdateRequest ==
  /\ nextLogId <= MaxLogs
  /\ \E idp \in RequestIdParams, body \in RequestPutBodies, fault \in Faults :
        RequestsPUT(idp, body, fault)

DeleteRequest ==
  /\ nextLogId <= MaxLogs
  /\ \E idp \in RequestIdParams, fault \in Faults : RequestsDELETE(idp, fault)

SessionHandlers ==
  \/ \E credentials \in Credentials : SignIn(credentials)
  \/ GetSession
  \/ \E url \in Urls : RedirectCallback(url)

Next ==
  \/ UserHandlers
  \/ CreateRequest(MaxRequests)
  \/ UpdateRequest
  \/ DeleteRequest
  \/ SessionHandlers

(* every handler against the shared store *)
Spec == Init /\ [][Next]_vars

(* the user handlers alone *)
NextUsers == UserHandlers
SpecUsers == Init /\ [][NextUsers]_vars

(* users that come to own requests and are then deleted *)
NextCascade ==
  \/ SeedUser
  \/ CreateRequest(MaxRequests)
  \/ \E idp \in QueryIdParams : UsersDELETE(idp)
  \/ \E idp \in IdParams : UserItemDELETE(idp)
SpecCascade == Init /\ [][NextCascade]_vars

(* the request handlers and their audit entries *)
NextRequests ==
  \/ SeedUser
  \/ CreateRequest(MaxAudited)
  \/ UpdateRequest
  \/ DeleteRequest
SpecRequests == Init /\ [][NextRequests]_vars

(* the statuses a client may send: those of requestSchema and "rejected" *)
SentStatuses == RequestStatuses \cup {"rejected"}

(* otherwise valid request bodies, with each status and with none *)
StatusBodies ==
  {[userId |-> 1, description |-> LongDesc, status |-> st] : st \in SentStatuses}
  \cup {[userId |-> 1, description |-> LongDesc]}

(* requests created and updated with each status, the store never failing *)
NextStatus ==
  \/ SeedUser
  \/ /\ nextRequestId <= MaxAudited
     /\ nextLogId <= MaxLogs
     /\ \E body \in StatusBodies : RequestsPOST(body, "none")
  \/ /\ nextLogId <= MaxLogs
     /\ \E idp \in RequestIdParams, body \in StatusBodies : RequestsPUT(idp, body, "none")
SpecStatus == Init /\ [][NextStatus]_vars

----------------------------------------------------------------------------
(* DELETE /users?id= and PUT /users?id= of users/route.ts, one store call per
   step, for two calls in flight on the same id.  resp and trace belong to the
   handlers that run in one step; a call in flight answers in calls. *)

(* PUT bodies that carry profile fields *)
RaceBodies == {[phone |-> Phone2], [firstName |-> First, password |-> Pw2]}

Answer(call, status) == [call EXCEPT !.pc = "done", !.status = status]
Goto(call, pc) == [call EXCEPT !.pc = pc]

(* both calls arrive for a stored user; id and body pass the checks that
   precede the first store call *)
Issue(uid, body) ==
  /\ calls = NoCalls
  /\ UserExists(uid)
  /\ UpdateUserSchemaOk(body)
  /\ calls' = [uid |-> uid,
               before |-> [profile |-> ProfileOf(uid), requests |-> RequestsOf(uid)],
               del |-> [pc |-> "findProfile", status |-> 0],
               put |-> [pc |-> "updateUser", status |-> 0, body |-> body]]
  /\ UNCHANGED <<users, profiles, requests, logs, roles, nextUserId, nextRequestId,
                 nextLogId, resp, trace, submitted, token, redirected>>

(* prisma.userProfile.findUnique({where: {userId}}) *)
DeleteFindProfile ==
  /\ calls.del.pc = "findProfile"
  /\ calls' = [calls EXCEPT !.del =
                  Goto(@, IF ProfileOf(calls.uid) # {} THEN "deleteProfile"
                                                      ELSE "deleteRequests")]
  /\ UNCHANGED <<users, profiles, requests, logs, roles, nextUserId, nextRequestId,
                 nextLogId, resp, trace, submitted, token, redirected>>

(* prisma.userProfile.delete({where: {userId}}): throws when the row is gone *)
DeleteProfile ==
  /\ calls.del.pc = "deleteProfile"
  /\ IF ProfileOf(calls.uid) = {}
     THEN /\ calls' = [calls EXCEPT !.del = Answer(@, 500)]
          /\ UNCHANGED profiles
     ELSE /\ profiles' = profiles \ ProfileOf(calls.uid)
          /\ calls' = [calls EXCEPT !.del = Goto(@, "deleteRequests")]
  /\ UNCHANGED <<users, requests, logs, roles, nextUserId, nextRequestId,
                 nextLogId, resp, trace, submitted, token, redirected>>

(* prisma.request.deleteMany({where: {userId}}) *)
DeleteRequests ==
  /\ calls.del.pc = "deleteRequests"
  /\ requests' = requests \ RequestsOf(calls.uid)
  /\ calls' = [calls EXCEPT !.del = Goto(@, "deleteUser")]
  /\ UNCHANGED <<users, profiles, logs, roles, nextUserId, nextRequestId,
                 nextLogId, resp, trace, submitted, token, redirected>>

(* prisma.user.delete({where: {id}}), then 204; the catch block answers 500 *)
DeleteUser ==
  /\ calls.del.pc = "deleteUser"
  /\ IF UserDeleteOk(calls.uid, profiles, requests, logs)
     THEN /\ users' = users \ UserById(calls.uid)
          /\ submitted' = Forget(submitted, calls.uid)
          /\ calls' = [calls EXCEPT !.del = Answer(@, 204)]
     ELSE /\ calls' = [calls EXCEPT !.del = Answer(@, 500)]
          /\ UNCHANGED <<users, submitted>>
  /\ UNCHANGED <<profiles, requests, logs, roles, nextUserId, nextRequestId,
                 nextLogId, resp, trace, token, redirected>>

(* bcrypt.hash and prisma.user.update({where: {id}, data: updateData}); 200
   follows at once when the body has no profile field *)
PutUpdateUser(salt) ==
  /\ calls.put.pc = "updateUser"
  /\ LET body == calls.put.body
         data == PutUpdateData(body, salt)
     IN IF ~UserUpdateOk(calls.uid, data)
        THEN /\ calls' = [calls EXCEPT !.put = Answer(@, 500)]
             /\ UNCHANGED <<users, submitted>>
        ELSE /\ users' = UpdatedUsers(calls.uid, data)
             /\ submitted' = IF Has(data, "password")
                             THEN [submitted EXCEPT ![calls.uid] = body.password]
                             ELSE submitted
             /\ calls' = [calls EXCEPT !.put =
                             IF HasProfileFields(body) THEN Goto(@, "upsertProfile")
                                                       ELSE Answer(@, 200)]
  /\ UNCHANGED <<profiles, requests, logs, roles, nextUserId, nextRequestId,
                 nextLogId, resp, trace, token, redirected>>

(* prisma.userProfile.upsert({where: {userId}, ...}), then 200: a profile row
   cannot be created for a user that is gone *)
PutUpsertProfile ==
  /\ calls.put.pc = "upsertProfile"
  /\ IF ProfileOf(calls.uid) = {} /\ ~UserExists(calls.uid)
     THEN /\ calls' = [calls EXCEPT !.put = Answer(@, 500)]
          /\ UNCHANGED profiles
     ELSE /\ profiles' = UpsertProfile(calls.uid, calls.put.body)
          /\ calls' = [calls EXCEPT !.put = Answer(@, 200)]
  /\ UNCHANGED <<users, requests, logs, roles, nextUserId, nextRequestId,
                 nextLogId, resp, trace, submitted, token, redirected>>

(* users and their requests are set up, then one DELETE and one PUT race *)
NextRace ==
  \/ calls = NoCalls /\ SeedUser
  \/ calls = NoCalls /\ CreateRequest(MaxAudited)
  \/ \E uid \in 1..MaxUsers, body \in RaceBodies : Issue(uid, body)
  \/ DeleteFindProfile
  \/ DeleteProfile
  \/ DeleteRequests
  \/ DeleteUser
  \/ \E salt \in SaltsFor(calls.put.body) : PutUpdateUser(salt)
  \/ PutUpsertProfile
SpecRace == Init /\ [][NextRace]_vars

(* sign-in and session lookups, with users created, re-keyed and deleted *)
NextSession ==
  \/ SeedUser
  \/ \E idp \in IdParams, salt \in Salts : UsersPUT(idp, [password |-> Pw2], salt)
  \/ \E idp \in IdParams : UsersDELETE(idp)
  \/ \E credentials \in Credentials : SignIn(credentials)
  \/ GetSession
SpecSession == Init /\ [][NextSession]_vars

(* the redirect callback over every url of the bound *)
NextRedirect == \E url \in Urls : RedirectCallback(url)
SpecRedirect == Init /\ [][NextRedirect]_vars

----------------------------------------------------------------------------
(* Claims *)

UserDeleteOps == {"DELETE /users", "DELETE /users/{id}"}

(* the positions of the successful calls named `name` in a handler's trace *)
OkCalls(tr, name) == {i \in 1..Len(tr) : tr[i].call = name /\ tr[i].ok}

(* C1: DELETE (either handler) of an existing user who owns a profile and N
   requests removes the profile row, then the N request rows, then the user row,
   answers 204 and leaves no profile or request row of that user. *)
C1_DeleteRemovesDependentsInOrder ==
  [][(resp'.op \in UserDeleteOps
      /\ UserExists(ParseInt(resp'.arg))
      /\ ProfileOf(ParseInt(resp'.arg)) # {})
     => LET uid == ParseInt(resp'.arg)
            n == Cardinality(RequestsOf(uid))
        IN /\ resp'.status = 204
           /\ \E i \in OkCalls(trace', "userProfile.delete") :
              \E j \in OkCalls(trace', "request.deleteMany") :
              \E k \in OkCalls(trace', "user.delete") :
                 i < j /\ j < k /\ trace'[j].count = n
           /\ users' = users \ UserById(uid)
           /\ profiles' = profiles \ ProfileOf(uid)
           /\ requests' = requests \ RequestsOf(uid)]_vars

(* C2 as stated: every POST /requests that creates a request row creates, in the
   same invocation, exactly one log row with the owner and the id of the request. *)
C2_EveryCreatedRequestIsLogged ==
  [][(resp'.op = "POST /requests" /\ requests' # requests)
     => \E r \in requests' \ requests :
        \E l \in logs' \ logs :
           /\ logs' \ logs = {l}
           /\ l.userId = r.userId
           /\ l.action = "CREATE"
           /\ l.description.requestId = r.id]_vars

(* C2 amended: a POST /requests that answers 201 has created exactly one request
   row and exactly one CREATE log row with that request's owner and id; when the
   request row is created and the log write fails, the answer is 500 and the row
   stays without a log entry. *)
C2_CreatedResponseIsLogged ==
  [][(resp'.op = "POST /requests")
     => /\ resp'.status = 201 =>
             /\ requests' = requests \cup {resp'.body}
             /\ resp'.body \notin requests
             /\ \E l \in logs' \ logs :
                   /\ logs' \ logs = {l}
                   /\ l.userId = resp'.body.userId
                   /\ l.action = "CREATE"
                   /\ l.description.requestId = resp'.body.id
        /\ (requests' # requests /\ resp'.status # 201) =>
             /\ resp'.status = 500
             /\ logs' = logs
        /\ resp'.status \notin {201, 500} => (requests' = requests /\ logs' = logs)]_vars

(* a 201 for a request of the second user, with its log row *)
C2_Witness ==
  /\ resp.op = "POST /requests"
  /\ resp.status = 201
  /\ resp.body.userId = 2
  /\ resp.body \in requests
  /\ \E l \in logs : l.userId = 2 /\ l.description.requestId = resp.body.id

(* username or email of the body is that of a stored user *)
Duplicate(body) ==
  \E u \in users :
     \/ Has(body, "username") /\ u.username = body.username
     \/ Has(body, "email") /\ u.email = body.email

(* C3: a POST /users whose username or email is that of a stored user answers
   400, and the User and UserProfile tables are as before the call. *)
C3_DuplicateUserIs400 ==
  [][resp'.op = "POST /users" =>
       \A body \in {b \in UserPostBodies : Duplicate(b)}, salt \in Salts :
          UsersPOST(body, salt)
          => /\ resp'.status = 400
             /\ users' = users
             /\ profiles' = profiles]_vars

(* the conflict answer, given with a user stored *)
C3_Witness ==
  /\ resp.op = "POST /users"
  /\ resp.status = 400
  /\ resp.body = ErrorBody("Username or email already exists")
  /\ users # {}

(* every stored password is the hash of the plaintext last accepted for the user *)
PasswordsHashed ==
  \A u \in users :
     /\ u.id \in DOMAIN submitted
     /\ u.password # submitted[u.id]
     /\ BcryptCompare(submitted[u.id], u.password)
     /\ \E salt \in Salts : u.password = BcryptHash(submitted[u.id], salt)

(* C4: over POST /users and PUT on either handler, every stored password is
   the hash of the plaintext last accepted for that user, never the plaintext,
   and verifies against it; an update without a password leaves the hash as is. *)
C4_PasswordsStoredHashed ==
  /\ PasswordsHashed
  /\ [][/\ PasswordsHashed'
        /\ resp'.op \in {"PUT /users", "PUT /users/{id}"} =>
              \A body \in {b \in UserPutBodies : ~Has(b, "password")}, salt \in Salts :
                 (UsersPUT(resp'.arg, body, salt) \/ UserItemPUT(resp'.arg, body, salt))
                 => \A u \in users : \E v \in users' : v.id = u.id /\ v.password = u.password]_vars

(* a user whose password was replaced through PUT *)
C4_Witness ==
  /\ resp.op \in {"PUT /users", "PUT /users/{id}"}
  /\ resp.status = 200
  /\ \E u \in users : submitted[u.id] = Pw2 /\ BcryptCompare(Pw2, u.password)
                      /\ u.username = Alice

(* scheme and host of a url: what precedes the first "/"; a relative url has
   the application's origin *)
RECURSIVE BeforeSlash(_)
BeforeSlash(s) ==
  IF s = Empty \/ Head(s) = "/" THEN Empty ELSE <<Head(s)>> \o BeforeSlash(Tail(s))
Origin(url) == IF Head(url) = "/" THEN BeforeSlash(BaseUrl) ELSE BeforeSlash(url)

(* C5: the redirect callback returns the supplied url only when it has the
   application's origin, and baseUrl for every url of another origin, so the
   target always has the application's origin. *)
C5_RedirectStaysOnOrigin ==
  /\ Origin(redirected.url) # Origin(BaseUrl) => redirected.target = BaseUrl
  /\ redirected.target \in {redirected.url, BaseUrl}
  /\ Origin(redirected.target) = Origin(BaseUrl)

(* the credentials name a stored user and the password verifies *)
Verifies(credentials) ==
  \E u \in users : /\ u.username = credentials.username
                   /\ BcryptCompare(credentials.password, u.password)

(* C6: credentials that name no stored user, or whose password does not verify,
   make authorize return null, alike in both cases, and leave the token as it
   was; an identity {id, username, email, role} is returned only for a stored
   user whose password verifies. *)
C6_FailedSignInIssuesNothing ==
  [][resp'.op = "authorize" =>
       LET credentials == resp'.arg
       IN /\ ~Verifies(credentials) =>
               /\ resp' = Response("authorize", credentials, 0, Null)
               /\ token' = token
          /\ resp'.body # Null =>
               /\ Verifies(credentials)
               /\ DOMAIN resp'.body = IdentityFields
               /\ \E u \in users : /\ u.username = credentials.username
                                   /\ resp'.body.id = u.id
                                   /\ resp'.body.username = u.username
                                   /\ resp'.body.email = u.email
                                   /\ resp'.body.role.name = u.role
               /\ \A f \in IdentityFields : token'[f] = resp'.body[f]]_vars

(* a wrong password for a stored user, after an earlier sign-in of another one:
   null, and the token still holds the earlier identity *)
C6_Witness ==
  /\ resp.op = "authorize"
  /\ resp.body = Null
  /\ \E u \in users : u.username = resp.arg.username
  /\ IdentityFields \subseteq DOMAIN token
  /\ token.username # resp.arg.username

(* C7: PUT (either handler) on an existing user with a body of only a phone
   answers 200; the profile then exists with that phone, its other fields are as
   before (or defaulted when created), and the user row is as before. *)
C7_PhoneOnlyPutUpsertsProfile ==
  [][(resp'.op \in {"PUT /users", "PUT /users/{id}"}
      /\ UserExists(ParseInt(resp'.arg))
      /\ \E salt \in Salts : \/ UsersPUT(resp'.arg, [phone |-> Phone2], salt)
                             \/ UserItemPUT(resp'.arg, [phone |-> Phone2], salt))
     => LET uid == ParseInt(resp'.arg)
        IN /\ resp'.status = 200
           /\ users' = users
           /\ \E p \in profiles' :
                 /\ p.userId = uid
                 /\ p.phone = Phone2
                 /\ \A f \in ProfileFields \ {"phone"} :
                       IF ProfileOf(uid) = {} THEN p[f] = ProfileDefault
                       ELSE \E q \in ProfileOf(uid) : p[f] = q[f]
           /\ \A p \in profiles' : p.userId # uid => p \in profiles]_vars

(* C8: once a user is created, no GET of it (list, ?id=, /users/{id}) returns a
   record with a password field. *)
C8_GetExposesNoPassword ==
  (resp.op \in {"GET /users", "GET /users/{id}"} /\ resp.status = 200)
  => IF "list" \in DOMAIN resp.body
     THEN \A r \in resp.body.list : "password" \notin DOMAIN r
     ELSE "password" \notin DOMAIN resp.body

(* C9: user DELETE with the id of a stored user answers 204; with a numeric id
   of no stored user it answers 404 and leaves every table as it was. *)
C9_DeleteTellsNotFound ==
  [][(resp'.op \in UserDeleteOps /\ ParseInt(resp'.arg) # NaN)
     => IF UserExists(ParseInt(resp'.arg))
        THEN resp'.status = 204 /\ resp'.body = NoBody
        ELSE /\ resp'.status = 404
             /\ <<users, profiles, requests, logs>>' = <<users, profiles, requests, logs>>]_vars

RequestOps == {"POST /requests", "PUT /requests", "DELETE /requests"}
RequestWrites == {"request.create", "request.update", "request.delete"}
LogAttempts(tr) == {i \in 1..Len(tr) : tr[i].call = "activityLog.create"}

(* C10: in POST, PUT and DELETE /requests the log write is attempted only after
   the request write succeeded; a call rejected by validation or failed at the
   store writes no log; when the log write fails after the request write, the
   request write stays (row created, row updated, row deleted). *)
C10_LogAfterWriteNoRollback ==
  [][resp'.op \in RequestOps =>
       /\ \A i \in LogAttempts(trace') :
             i > 1 /\ trace'[i - 1].call \in RequestWrites /\ trace'[i - 1].ok
       /\ logs' # logs => \E i \in LogAttempts(trace') : trace'[i].ok
       /\ (resp'.status = 400 \/ \E i \in 1..Len(trace') :
              trace'[i].call \in RequestWrites /\ ~trace'[i].ok)
          => (logs' = logs /\ requests' = requests /\ LogAttempts(trace') = {})
       /\ (\E i \in LogAttempts(trace') : ~trace'[i].ok) =>
             /\ logs' = logs
             /\ resp'.status = 500
             /\ resp'.op = "POST /requests" =>
                   \E body \in {b \in RequestPostBodies : RequestSchemaOk(b, FALSE)} :
                      requests' = requests \cup
                                    {NewRequestRow(nextRequestId, RequestValue(body))}
                      /\ nextRequestId \notin {r.id : r \in requests}
             /\ resp'.op = "PUT /requests" =>
                   \E body \in {b \in RequestPutBodies : RequestSchemaOk(b, TRUE)} :
                      /\ RequestById(ParseInt(resp'.arg)) # {}
                      /\ requests' = (requests \ RequestById(ParseInt(resp'.arg))) \cup
                                       {NewRequestRow(ParseInt(resp'.arg), RequestValue(body))}
             /\ resp'.op = "DELETE /requests" =>
                   /\ RequestById(ParseInt(resp'.arg)) # {}
                   /\ requests' = requests \ RequestById(ParseInt(resp'.arg))]_vars

(* an update whose log write failed: the row is updated and no UPDATE entry names it *)
C10_Witness ==
  /\ resp.op = "PUT /requests"
  /\ resp.status = 500
  /\ Len(trace) = 2 /\ trace[1].ok /\ ~trace[2].ok
  /\ \E r \in requests : r.id = ParseInt(resp.arg) /\ r.status = "completed"
  /\ \A l \in logs : l.action # "UPDATE"

(* C11: a PUT /requests on an existing request, valid but for carrying any of
   the statuses pending, in-progress, completed, rejected, answers 200 and
   leaves the request with that status; a POST without status stores pending,
   and a POST with any of the four statuses is accepted and stores it. *)
C11_StatusMovesFreely ==
  [][/\ resp'.op = "PUT /requests" =>
          \A body \in {b \in StatusBodies : Has(b, "status")} :
             (/\ RequestsPUT(resp'.arg, body, "none")
              /\ RequestById(ParseInt(resp'.arg)) # {}
              /\ UserExists(body.userId))
             => /\ resp'.status = 200
                /\ \E r \in requests' : r.id = ParseInt(resp'.arg) /\ r.status = body.status
     /\ resp'.op = "POST /requests" =>
          \A body \in StatusBodies :
             (RequestsPOST(body, "none") /\ UserExists(body.userId))
             => /\ resp'.status = 201
                /\ \E r \in requests' :
                      /\ r.id = nextRequestId
                      /\ r.status = IF Has(body, "status") THEN body.status
                                                           ELSE "pending"]_vars

BothAnswered == calls.del.pc = "done" /\ calls.put.pc = "done"

(* C12: once a DELETE and a PUT with profile fields, issued together on the id
   of a stored user, have both answered: at least one answered with success
   and the other with success or an error; if the DELETE answered 204 no user,
   profile or request row of that id is stored; if the DELETE answered an
   error the user, the profile it had (as it was or as the PUT updates it) and
   the requests it had are still stored. *)
C12_RaceLeavesNoPartialDelete ==
  BothAnswered =>
    /\ calls.del.status = 204 \/ calls.put.status = 200
    /\ calls.del.status \in {204, 500} /\ calls.put.status \in {200, 500}
    /\ calls.del.status = 204 =>
          /\ ~UserExists(calls.uid)
          /\ ProfileOf(calls.uid) = {}
          /\ RequestsOf(calls.uid) = {}
    /\ calls.del.status # 204 =>
          /\ UserExists(calls.uid)
          /\ \A p \in calls.before.profile :
                /\ ProfileOf(calls.uid) # {}
                /\ ProfileOf(calls.uid) \subseteq
                     {p, Merge(p, [f \in {g \in ProfileFields : Has(calls.put.body, g)}
                                     |-> calls.put.body[f]])}
          /\ calls.before.requests \subseteq requests

====
